---------------------------- MODULE Spec2Model ----------------------------
(***************************************************************************)
(* hydraedge: the Frame-to-Tuple Builder (RuleMapStage.run, wp7_rulemap),  *)
(* the graph assembler (to_json, tuple_extractor) and the structural       *)
(* validator (validate_payload, schema/validator).                         *)
(*                                                                         *)
(* Python strings that the code only compares or uses as dictionary keys   *)
(* are TLA+ strings; strings whose characters the code looks at (find,     *)
(* startswith, len, f-string formatting) are sequences of one-character    *)
(* strings.                                                                *)
(***************************************************************************)
EXTENDS Integers, Sequences, FiniteSets, TLC

(***************************************************************************)
(* Bounds of the model.                                                    *)
(***************************************************************************)
\* longest frame list handed to one RuleMapStage invocation
MaxFrames == 2
\* longest frame list handed to each of two concurrent invocations
MaxConcFrames == 2
\* longest frame list the frame source returns to to_json
MaxSrlFrames == 2
\* number of to_json calls on the sentence
MaxRuns == 2
\* most nodes, and most edges, of a payload handed to validate_payload
MaxPayloadNodes == 3
MaxPayloadEdges == 2

\* the invocations of RuleMapStage.run (two sentences, each its own Ctx)
Invocations == {1, 2}

\* the values str(uuid.uuid4())[:8] can take (random: any of them, each call)
UUIDS == {"u1", "u2"}

VARIABLES
    ctx,        \* ctx[i].data, ctx[i].debug : the Ctx of invocation i
    pc,         \* position of invocation i: ready, run, done, fatal, raised
    err,        \* the error invocation i ended with, <<>> when none
    tuples,     \* the local list `tuples` of invocation i
    eid_of_pred, \* the dict `eid_of_pred` created by invocation i
    sentence,   \* the sentence handed to to_json
    srl,        \* the frame source: what _frames answered for `sentence`
    payloads,   \* the payloads to_json has returned, in call order
    eid_counter, \* to_json's counter `eid_counter`, as its last call left it
    vpayload,   \* the payload handed to validate_payload
    verdict     \* <<[ok, errors]>> once validate_payload has returned, <<>> before

rmVars == <<ctx, pc, err, tuples, eid_of_pred>>

tjVars == <<sentence, srl, payloads, eid_counter>>

vlVars == <<vpayload, verdict>>

vars == <<ctx, pc, err, tuples, eid_of_pred, sentence, srl, payloads, eid_counter,
          vpayload, verdict>>

(***************************************************************************)
(* Helpers for Python dicts: a dict is a function, a missing key is a key  *)
(* outside its DOMAIN.                                                     *)
(***************************************************************************)
EmptyDict == <<>>

Restrict(f, S) == [k \in S |-> f[k]]

SetItem(d, k, v) == [x \in (DOMAIN d) \cup {k} |-> IF x = k THEN v ELSE d[x]]

\* dict.get(key): the value, or None
NoneValue == "None"
Get(d, k) == IF k \in DOMAIN d THEN d[k] ELSE NoneValue

\* Python truthiness of the values alias_map holds (None and "" are false)
Truthy(v) == v # NoneValue /\ v # ""

(***************************************************************************)
(* str.strip and str.lower on the spans the model feeds in.                *)
(***************************************************************************)
Spans == {" Yao", "ran"}

strip(s) == CASE s = " Yao" -> "Yao"
              [] OTHER -> s

lower(s) == CASE s = "Yao" -> "yao"
              [] s = " Yao" -> " yao"
              [] OTHER -> s

(***************************************************************************)
(* RuleMapStage: class attributes.                                         *)
(***************************************************************************)
name == "rulemap"

\* variant: the stub flag left out of the declaration
requires_without_flag == <<"doc", "frames", "alias_map">>

requires == <<"doc", "frames", "alias_map", "may_need_stub">>

provides == <<"tuples">>

SeqToSet(s) == {s[k] : k \in 1..Len(s)}

\* the first element of the list `keys` that is not a key of `data`
FirstMissing(keys, data) ==
    LET miss == {k \in 1..Len(keys) : keys[k] \notin DOMAIN data}
    IN  keys[CHOOSE k \in miss : \A m \in miss : k <= m]

(***************************************************************************)
(* Inputs: frames that upstream stages put under ctx.data["frames"].  A    *)
(* well-formed frame has the three fields run() reads; a malformed one     *)
(* lacks one of them.                                                      *)
(***************************************************************************)
Docs == {"Yao ran.", "Rain."}

Predicates == {"found", "ran"}

Roles == {"ARG0"}

FrameFields == {"predicate", "role", "span"}

WellFormedFrames ==
    {[predicate |-> p, role |-> r, span |-> s] :
        p \in Predicates, r \in Roles, s \in Spans}

MalformedFrames ==
    {Restrict([predicate |-> "found", role |-> "ARG0", span |-> "ran"],
              FrameFields \ {k}) : k \in FrameFields}

IsWellFormed(fr) == FrameFields \subseteq DOMAIN fr

FrameLists(F, n) == UNION {[1..k -> F] : k \in 0..n}

AliasMaps == {EmptyDict, [yao |-> "alfredo_yao"], [yao |-> ""]}

\* every Ctx.data an upstream pipeline can leave: any of the four keys may
\* be absent
Contexts(F, n, A) ==
    {Restrict([doc |-> d, frames |-> fl, alias_map |-> am, may_need_stub |-> st], K) :
        d \in Docs, fl \in FrameLists(F, n), am \in A, st \in BOOLEAN,
        K \in SUBSET SeqToSet(requires)}

FullContexts(F, n, A) ==
    {c \in Contexts(F, n, A) : SeqToSet(requires) \subseteq DOMAIN c}

(***************************************************************************)
(* RuleMapStage.run, piece by piece.                                       *)
(***************************************************************************)
\* variant: one dict shared by every invocation
EidMapShared(i) == 1

\* eid_of_pred = {} is a local of run(): every invocation has its own dict
EidMapOf(i) == i

\* variant: no memoisation, a new id for every frame
get_eid_unmemoised(map, pred, u) == [eid |-> u, map |-> SetItem(map, pred, u)]

\* _get_eid(pred), with u the value uuid4 returns if it is called
get_eid(map, pred, u) ==
    IF pred \notin DOMAIN map
    THEN [eid |-> u, map |-> SetItem(map, pred, u)]
    ELSE [eid |-> map[pred], map |-> map]

\* variant: the flag is not consulted
StubConditionNoFlag(may_need_stub, tups) == tups = <<>>

\* `if ctx.data["may_need_stub"] and not tuples`
StubCondition(may_need_stub, tups) == may_need_stub /\ tups = <<>>

StubTuple(u) == [eid |-> u, role |-> "SentenceStub", span |-> "[stub]"]

\* the body of `for tup in tuples`: attach alias_key when the lookup is truthy
AttachAlias(tup, alias_map) ==
    LET surface == lower(tup.span)
        alias   == Get(alias_map, surface)
    IN  IF Truthy(alias) THEN SetItem(tup, "alias_key", alias) ELSE tup

\* variant: the metric repeats the flag
StubInjectedFlagOnly(may_need_stub, frames) == may_need_stub

\* `ctx.data["may_need_stub"] and not frames`
StubInjected(may_need_stub, frames) == may_need_stub /\ frames = <<>>

Debug(map, tups, may_need_stub, frames) ==
    [n_predicates  |-> Cardinality(DOMAIN map),
     n_tuples      |-> Len(tups),
     stub_injected |-> StubInjected(may_need_stub, frames)]

Raise(i, exc, key) ==
    /\ pc' = [pc EXCEPT ![i] = "raised"]
    /\ err' = [err EXCEPT ![i] = <<exc, key>>]
    /\ UNCHANGED <<ctx, tuples, eid_of_pred, tjVars, vlVars>>

\* first lines of run(): read doc, frames, alias_map; tuples = []; eid_of_pred = {}
RunEnter(i) ==
    LET data == ctx[i].data
        read == <<"doc", "frames", "alias_map">>
    IN  IF SeqToSet(read) \subseteq DOMAIN data
        THEN /\ pc' = [pc EXCEPT ![i] = "run"]
             /\ tuples' = [tuples EXCEPT ![i] = <<>>]
             /\ eid_of_pred' = [eid_of_pred EXCEPT ![EidMapOf(i)] = EmptyDict]
             /\ UNCHANGED <<ctx, err, tjVars, vlVars>>
        ELSE Raise(i, "KeyError", FirstMissing(read, data))

\* the stage framework: verify the required keys, then call run()
PipelineRunStage(i) ==
    /\ pc[i] = "ready"
    /\ IF SeqToSet(requires) \subseteq DOMAIN ctx[i].data
       THEN RunEnter(i)
       ELSE /\ pc' = [pc EXCEPT ![i] = "fatal"]
            /\ err' = [err EXCEPT ![i] =
                          <<"StageError", FirstMissing(requires, ctx[i].data)>>]
            /\ UNCHANGED <<ctx, tuples, eid_of_pred, tjVars, vlVars>>

\* one iteration of `for fr in frames`
RunFrame(i) ==
    /\ pc[i] = "run"
    /\ Len(tuples[i]) < Len(ctx[i].data.frames)
    /\ LET fr == ctx[i].data.frames[Len(tuples[i]) + 1]
           read == <<"predicate", "role", "span">>
       IN  IF ~IsWellFormed(fr)
           THEN Raise(i, "KeyError", FirstMissing(read, fr))
           ELSE \E u \in UUIDS :
                  LET r == get_eid(eid_of_pred[EidMapOf(i)], fr.predicate, u)
                      tup == [eid |-> r.eid, role |-> fr.role, span |-> strip(fr.span)]
                  IN  /\ eid_of_pred' = [eid_of_pred EXCEPT ![EidMapOf(i)] = r.map]
                      /\ tuples' = [tuples EXCEPT ![i] = Append(@, tup)]
                      /\ UNCHANGED <<ctx, pc, err, tjVars, vlVars>>

\* after the loop: stub injection, alias attachment, the writes to ctx
RunTail(i) ==
    /\ pc[i] = "run"
    /\ Len(tuples[i]) = Len(ctx[i].data.frames)
    /\ LET data == ctx[i].data
       IN  IF "may_need_stub" \notin DOMAIN data
           THEN Raise(i, "KeyError", "may_need_stub")
           ELSE \E u \in UUIDS :
                  LET stubbed == IF StubCondition(data.may_need_stub, tuples[i])
                                 THEN Append(tuples[i], StubTuple(u))
                                 ELSE tuples[i]
                      aliased == [k \in 1..Len(stubbed) |->
                                     AttachAlias(stubbed[k], data.alias_map)]
                      dbg == Debug(eid_of_pred[EidMapOf(i)], aliased,
                                   data.may_need_stub, data.frames)
                  IN  /\ tuples' = [tuples EXCEPT ![i] = aliased]
                      /\ ctx' = [ctx EXCEPT ![i] =
                                    [data  |-> SetItem(data, "tuples", aliased),
                                     debug |-> SetItem(ctx[i].debug, name, dbg)]]
                      /\ pc' = [pc EXCEPT ![i] = "done"]
                      /\ UNCHANGED <<err, eid_of_pred, tjVars, vlVars>>

(***************************************************************************)
(* tuple_extractor: strings as sequences of characters.                    *)
(***************************************************************************)
\* str.find(sub): 0-based index of the first occurrence, -1 when absent
find(s, sub) ==
    LET hits == {k \in 0..(Len(s) - Len(sub)) : SubSeq(s, k + 1, k + Len(sub)) = sub}
    IN  IF hits = {} THEN -1 ELSE CHOOSE k \in hits : \A m \in hits : k <= m

LowerChar(c) == CASE c = "B" -> "b"
                  [] OTHER -> c

\* str.lower()
str_lower(s) == [k \in 1..Len(s) |-> LowerChar(s[k])]

Digit(d) == <<"0", "1", "2", "3", "4", "5", "6", "7", "8", "9">>[d + 1]

RECURSIVE str_int(_)
\* str(n) for n >= 0, as the f-string f"e{eid_counter}" formats it
str_int(n) == IF n < 10 THEN <<Digit(n)>> ELSE str_int(n \div 10) \o <<Digit(n % 10)>>

Ord(c) == CASE c = " " -> 32
             [] c = "." -> 46
             [] c = "B" -> 66
             [] c = "a" -> 97
             [] c = "b" -> 98
             [] OTHER -> 63

HexDigit(d) ==
    <<"0", "1", "2", "3", "4", "5", "6", "7", "8", "9", "a", "b", "c", "d", "e", "f">>[d + 1]

RECURSIVE Digest(_, _)
\* stands for md5 over the encoded text: a fixed function of the characters
Digest(s, h) ==
    IF s = <<>> THEN h ELSE Digest(Tail(s), (h * 31 + Ord(Head(s))) % 16777216)

\* hashlib.md5(sentence.encode()).hexdigest()[:6]
md5_hexdigest_6(s) ==
    LET h == Digest(s, 7)
    IN  [k \in 1..6 |-> HexDigit((h \div (16 ^ (6 - k))) % 16)]

(***************************************************************************)
(* The frame source _frames(sentence): an external SRL model, or the regex *)
(* fallback.  It returns a list of frames over the words of the sentence;  *)
(* every tag sequence is possible.                                         *)
(***************************************************************************)
B_ARG0 == <<"B", "-", "A", "R", "G", "0">>

B_ARG1 == <<"B", "-", "A", "R", "G", "1">>

B_ARG2 == <<"B", "-", "A", "R", "G", "2">>

B_ARGM_LOC == <<"B", "-", "A", "R", "G", "M", "-", "L", "O", "C">>

B_ARGM_MNR == <<"B", "-", "A", "R", "G", "M", "-", "M", "N", "R">>

O_TAG == <<"O">>

\* a tag that continues the LOC prefix, and the tag of the verb itself
B_ARGM_LOC_2 == B_ARGM_LOC \o <<"2">>

B_V == <<"B", "-", "V">>

TagSet == {B_ARG0, B_ARG1, B_ARG2, B_ARGM_LOC, B_ARGM_MNR, O_TAG, B_ARGM_LOC_2, B_V}

Sentences == {<<"a">>, <<"a", " ", "a">>, <<"B", "a", " ", "a">>}

RECURSIVE split(_)
\* str.split(): the words between blanks
split(s) ==
    IF s = <<>> THEN <<>>
    ELSE LET sp == find(s, <<" ">>)
         IN  IF sp = -1 THEN <<s>>
             ELSE IF sp = 0 THEN split(Tail(s))
             ELSE <<SubSeq(s, 1, sp)>> \o split(SubSeq(s, sp + 2, Len(s)))

\* the tags the frame source draws from: all of them on a one-word sentence,
\* the three of the regex fallback on longer ones
CoreTags == {B_ARG0, B_ARG1, O_TAG}

SrlTags(s) == IF Len(split(s)) = 1 THEN TagSet ELSE CoreTags

FramesOver(s) ==
    LET words == split(s)
    IN  {[verb |-> v, words |-> words, tags |-> t] :
            v \in SeqToSet(words), t \in [1..Len(words) -> SrlTags(s)]}

\* the answers _frames(sentence) can give
frames_of(s) == FrameLists(FramesOver(s), MaxSrlFrames)

(***************************************************************************)
(* to_json.                                                                *)
(***************************************************************************)
startswith(s, prefix) ==
    Len(prefix) <= Len(s) /\ SubSeq(s, 1, Len(prefix)) = prefix

\* variant: B-ARG2 is not in the table
propbank_to_role_without_arg2(tag) ==
    IF tag = B_ARG0 THEN "Subject"
    ELSE IF tag \in {B_ARG1} THEN "Object"
    ELSE IF startswith(tag, B_ARGM_LOC) THEN "IndirectObject"
    ELSE IF startswith(tag, B_ARGM_MNR) THEN "Attr"
    ELSE NoneValue

\* _propbank_to_role(tag)
propbank_to_role(tag) ==
    IF tag = B_ARG0 THEN "Subject"
    ELSE IF tag \in {B_ARG1, B_ARG2} THEN "Object"
    ELSE IF startswith(tag, B_ARGM_LOC) THEN "IndirectObject"
    ELSE IF startswith(tag, B_ARGM_MNR) THEN "Attr"
    ELSE NoneValue

\* hydraedge.extractor.alias.resolve_alias: tiered dictionary lookup of the
\* lowercased surface form, the lowercased form itself when no tier matches
SeedDictionary == (<<"b", "a">> :> <<"b">>)

resolve_alias(surface) ==
    LET key == str_lower(surface)
    IN  IF key \in DOMAIN SeedDictionary THEN SeedDictionary[key] ELSE key

\* class Node(BaseModel), with its defaults
Node(id, filler, alias_key, roles, ntype, eid_set, char_start, char_end) ==
    [id |-> id, filler |-> filler, alias_key |-> alias_key, roles |-> roles,
     ntype |-> ntype, eid_set |-> eid_set,
     char_start |-> char_start, char_end |-> char_end]

NodeDefaults == [ntype |-> "spo", eid_set |-> <<>>, char_start |-> 0, char_end |-> 0]

\* class Edge(BaseModel)
Edge(source, target, kind) == [source |-> source, target |-> target, kind |-> kind]

\* f"stub:{...}"
stub_id_of(s) == <<"s", "t", "u", "b", ":">> \o md5_hexdigest_6(s)

\* f"e{eid_counter}"
eid_of(counter) == <<"e">> \o str_int(counter)

\* variant: the event id left out of the node id
spo_id_without_eid(text, eid) == <<"s", "p", "o", ":">> \o text

\* f"spo:{text}@{eid}"
spo_id(text, eid) == <<"s", "p", "o", ":">> \o text \o <<"@">> \o eid

\* variant: the role and the node type swapped
StubNodeSwapped(s) ==
    Node(stub_id_of(s), s, str_lower(s), <<"SentenceStub">>, "Sentence",
         NodeDefaults.eid_set, NodeDefaults.char_start, NodeDefaults.char_end)

\* the node appended when _frames returned nothing
StubNode(s) ==
    Node(stub_id_of(s), s, str_lower(s), <<"Sentence">>, "SentenceStub",
         NodeDefaults.eid_set, NodeDefaults.char_start, NodeDefaults.char_end)

\* variant: nothing is appended for a sentence without frames
NodesWithoutStub(s) == <<>>

\* `if not frames:` branch
NodesWhenNoFrames(s) == <<StubNode(s)>>

\* {"Subject": "S-P", "Object": "P-O"}.get(role, "attr")
kind_of(role) ==
    CASE role = "Subject" -> "S-P"
      [] role = "Object" -> "P-O"
      [] OTHER -> "attr"

\* variant: a node counts as present under every event id once its filler is
NodeIdsOfAnyEvent(nodes) ==
    {spo_id(nodes[k].filler, eid_of(c)) : k \in 1..Len(nodes), c \in 1..(MaxSrlFrames + 1)}

\* the ids of the nodes collected so far
NodeIds(nodes) == {nodes[k].id : k \in 1..Len(nodes)}

\* variant: the argument node is left with the default, empty eid_set
ArgStepDefaultEidSet(st, s, pred_id, eid, w, tag) ==
    LET role == propbank_to_role(tag)
        nid  == spo_id(w, eid)
        kind == kind_of(role)
    IN  IF role = NoneValue THEN st
        ELSE [nodes  |-> IF nid \notin NodeIds(st.nodes)
                         THEN Append(st.nodes,
                                     Node(nid, w, resolve_alias(w), <<role>>,
                                          NodeDefaults.ntype, NodeDefaults.eid_set,
                                          find(s, w), find(s, w) + Len(w)))
                         ELSE st.nodes,
              edges  |-> Append(st.edges,
                                Edge(IF kind = "P-O" THEN pred_id ELSE nid,
                                     IF kind = "P-O" THEN nid ELSE pred_id,
                                     kind)),
              tuples |-> Append(st.tuples, <<role, w>>)]

\* the body of `for w, tag in zip(fr["words"], fr["tags"])`
ArgStep(st, s, pred_id, eid, w, tag) ==
    LET role == propbank_to_role(tag)
        nid  == spo_id(w, eid)
        kind == kind_of(role)
    IN  IF role = NoneValue THEN st
        ELSE [nodes  |-> IF nid \notin NodeIds(st.nodes)
                         THEN Append(st.nodes,
                                     Node(nid, w, resolve_alias(w), <<role>>,
                                          NodeDefaults.ntype, <<eid>>,
                                          find(s, w), find(s, w) + Len(w)))
                         ELSE st.nodes,
              edges  |-> Append(st.edges,
                                Edge(IF kind = "P-O" THEN pred_id ELSE nid,
                                     IF kind = "P-O" THEN nid ELSE pred_id,
                                     kind)),
              tuples |-> Append(st.tuples, <<role, w>>)]

RECURSIVE ArgLoop(_, _, _, _, _, _, _)
\* zip stops at the shorter of words and tags
ArgLoop(st, s, pred_id, eid, words, tags, k) ==
    IF k > Len(words) \/ k > Len(tags) THEN st
    ELSE ArgLoop(ArgStep(st, s, pred_id, eid, words[k], tags[k]),
                 s, pred_id, eid, words, tags, k + 1)

\* the body of `for fr in frames`
FrameStep(st, s, fr, counter) ==
    LET eid     == eid_of(counter)
        pred    == fr.verb
        pred_id == spo_id(pred, eid)
        withPred == [st EXCEPT !.nodes =
                        Append(@, Node(pred_id, pred, resolve_alias(pred),
                                       <<"Predicate">>, NodeDefaults.ntype, <<eid>>,
                                       find(s, pred), find(s, pred) + Len(pred)))]
    IN  ArgLoop(withPred, s, pred_id, eid, fr.words, fr.tags, 1)

RECURSIVE FrameLoop(_, _, _, _, _)
FrameLoop(st, s, frames, k, counter) ==
    IF k > Len(frames) THEN [st |-> st, eid_counter |-> counter]
    ELSE FrameLoop(FrameStep(st, s, frames[k], counter), s, frames, k + 1, counter + 1)

\* the chv field: np.ones(4096) without tuples, else the external encoder's
\* vector, a function of the (role, token) list
chv_of(tups) ==
    IF tups = <<>> THEN [ones |-> 4096] ELSE [encode_chv |-> tups]

\* class Payload(BaseModel), as to_json fills it
Payload(s, st) ==
    [version |-> "2.4", sentence |-> s, nodes |-> st.nodes, edges |-> st.edges,
     layouts |-> [hulls |-> <<>>], chv |-> chv_of(st.tuples)]

\* to_json on sentence s when _frames(s) returned `frames` and eid_counter
\* starts at `start`
Assemble(s, frames, start) ==
    LET empty == [nodes |-> <<>>, edges |-> <<>>, tuples |-> <<>>]
    IN  IF frames = <<>>
        THEN [payload |-> Payload(s, [empty EXCEPT !.nodes = NodesWhenNoFrames(s)]),
              eid_counter |-> start]
        ELSE LET r == FrameLoop(empty, s, frames, 1, start)
             IN  [payload |-> Payload(s, r.st), eid_counter |-> r.eid_counter]

to_json_from(start) ==
    /\ Len(payloads) < MaxRuns
    /\ \E fl \in (IF srl.asked THEN {srl.frames} ELSE frames_of(sentence)) :
          /\ srl' = [asked |-> TRUE, frames |-> fl]
          /\ LET r == Assemble(sentence, fl, start)
             IN  /\ payloads' = Append(payloads, r.payload)
                 /\ eid_counter' = r.eid_counter
    /\ UNCHANGED <<sentence, rmVars, vlVars>>

\* variant: the counter is not reset at the start of a call
to_json_stale_counter == to_json_from(eid_counter)

\* to_json(sentence): `eid_counter = 1` at the start of every call
to_json == to_json_from(1)

InitToJsonVars ==
    /\ sentence = <<"a", " ", "a">>
    /\ srl = [asked |-> FALSE, frames |-> <<>>]
    /\ payloads = <<>>
    /\ eid_counter = 1

(***************************************************************************)
(* The structural validator (hydraedge.schema.validator).  A payload is    *)
(* the dict json.load gives; an error is a record                          *)
(*   [rule, what, subject, detail]                                         *)
(* standing for the message string: the rule id the message starts with,   *)
(* the condition it reports, the edge or node it names, and the values it  *)
(* quotes.                                                                 *)
(***************************************************************************)
\* chv_v24.json: "required" of the payload, of a node and of an edge
TopRequired == {"version", "sentence", "nodes", "edges"}

\* variant: a node needs no filler
NodeRequiredWithoutFiller == {"id", "roles", "eid_set", "ntype"}

NodeRequired == {"id", "filler", "roles", "eid_set", "ntype"}

EdgeRequired == {"source", "target", "kind"}

\* chv_v24.json: the enums of ntype and kind
NtypeEnum == {"spo", "attr", "meta_out", "chv", "event"}

KindEnum == {"S-P", "P-O", "attr", "meta", "binder", "event-pred", "subevt"}

\* the version tag the validator accepts
RecognizedVersions == {"2.4"}

\* what the JSON-Schema check finds wrong with payload p
SchemaDefects(p) ==
    LET Missing(d, req) == {[what |-> "required", name |-> f] : f \in req \ DOMAIN d}
        top == Missing(p, TopRequired)
        ver == IF "version" \in DOMAIN p /\ p.version \notin RecognizedVersions
               THEN {[what |-> "version", name |-> p.version]}
               ELSE {}
        nod == IF "nodes" \in DOMAIN p
               THEN UNION {Missing(p.nodes[k], NodeRequired)
                             \cup (IF "ntype" \in DOMAIN p.nodes[k]
                                      /\ p.nodes[k].ntype \notin NtypeEnum
                                   THEN {[what |-> "enum", name |-> "ntype"]}
                                   ELSE {}) : k \in 1..Len(p.nodes)}
               ELSE {}
        edg == IF "edges" \in DOMAIN p
               THEN UNION {Missing(p.edges[k], EdgeRequired)
                             \cup (IF "kind" \in DOMAIN p.edges[k]
                                      /\ p.edges[k].kind \notin KindEnum
                                   THEN {[what |-> "enum", name |-> "kind"]}
                                   ELSE {}) : k \in 1..Len(p.edges)}
               ELSE {}
    IN  top \cup ver \cup nod \cup edg

\* "JSON-Schema: 'filler' is a required property"
SchemaError(d) ==
    [rule |-> "JSON-Schema", what |-> d.what, subject |-> <<d.name>>, detail |-> <<>>]

\* _nodes_by_id: the index of the nodes by their id
nodes_by_id(p) ==
    [i \in {p.nodes[k].id : k \in 1..Len(p.nodes)} |->
        p.nodes[CHOOSE k \in 1..Len(p.nodes) :
                   /\ p.nodes[k].id = i
                   /\ \A m \in 1..Len(p.nodes) : p.nodes[m].id = i => m <= k]]

\* variant: subevt still typed as the event stub edge it once was
RequiredPairOldSubevt(kind) ==
    CASE kind \in {"S-P", "P-O"} -> <<"spo", "spo">>
      [] kind = "event-pred" -> <<"event", "spo">>
      [] kind = "subevt" -> <<"event", "spo">>
      [] kind = "attr" -> <<"attr", "spo">>
      [] kind = "meta" -> <<"meta_out", "chv">>
      [] kind = "binder" -> <<"spo", "chv">>

\* rules S1..S5: the (source.ntype, target.ntype) pair each kind requires
RequiredPair(kind) ==
    CASE kind \in {"S-P", "P-O"} -> <<"spo", "spo">>
      [] kind = "event-pred" -> <<"event", "spo">>
      [] kind = "subevt" -> <<"spo", "spo">>
      [] kind = "attr" -> <<"attr", "spo">>
      [] kind = "meta" -> <<"meta_out", "chv">>
      [] kind = "binder" -> <<"spo", "chv">>

\* the rule id an edge kind is checked under
RuleOf(kind) ==
    CASE kind \in {"S-P", "P-O"} -> "S1"
      [] kind = "event-pred" -> "S2"
      [] kind = "subevt" -> "S2b"
      [] kind = "attr" -> "S3"
      [] kind = "meta" -> "S4"
      [] kind = "binder" -> "S5"

\* the event id an event node stands for
event_id(n) == n.eid_set[1]

\* variant: the membership is not looked at
eid_unchecked(eid, eid_set) == TRUE

\* S2a: source eid in target.eid_set
eid_member(eid, eid_set) == eid \in SeqToSet(eid_set)

\* S1: the two ends share an event id
shares_eid(s, t) == SeqToSet(s.eid_set) \cap SeqToSet(t.eid_set) # {}

\* check 3 on one edge: the ntype pair first, the extra condition of the kind
\* when the pair is the required one
EdgeErrors(p, e) ==
    LET s    == nodes_by_id(p)[e.source]
        t    == nodes_by_id(p)[e.target]
        got  == <<s.ntype, t.ntype>>
        edge == <<e.source, e.target, e.kind>>
    IN  IF e.kind \notin KindEnum THEN <<>>
        ELSE IF got # RequiredPair(e.kind)
        THEN <<[rule |-> RuleOf(e.kind), what |-> "ntype", subject |-> edge,
                detail |-> RequiredPair(e.kind) \o got]>>
        ELSE IF e.kind \in {"S-P", "P-O"} /\ ~shares_eid(s, t)
        THEN <<[rule |-> "S1", what |-> "eid", subject |-> edge,
                detail |-> <<>>]>>
        ELSE IF e.kind = "event-pred" /\ ~eid_member(event_id(s), t.eid_set)
        THEN <<[rule |-> "S2", what |-> "eid", subject |-> edge,
                detail |-> <<event_id(s)>> \o t.eid_set]>>
        ELSE <<>>

RECURSIVE Concat(_)
\* the lists of a list, joined in order
Concat(ss) == IF ss = <<>> THEN <<>> ELSE Head(ss) \o Concat(Tail(ss))

\* check 3: every edge, in input order
TypingErrors(p) == Concat([k \in 1..Len(p.edges) |-> EdgeErrors(p, p.edges[k])])

ChvIds(p) == {p.nodes[k].id : k \in {m \in 1..Len(p.nodes) : p.nodes[m].ntype = "chv"}}

\* variant: only a payload without any chv node is reported
ChvCountErrorsWhenNone(p) ==
    IF Cardinality({m \in 1..Len(p.nodes) : p.nodes[m].ntype = "chv"}) >= 1 THEN <<>>
    ELSE <<[rule |-> "S6", what |-> "count", subject |-> <<>>, detail |-> <<>>]>>

\* S6: exactly one chv node required
ChvCountErrors(p) ==
    IF Cardinality({m \in 1..Len(p.nodes) : p.nodes[m].ntype = "chv"}) = 1 THEN <<>>
    ELSE <<[rule |-> "S6", what |-> "count", subject |-> <<>>, detail |-> <<>>]>>

\* S7: edge kind outside the whitelist
WhitelistErrors(p) ==
    Concat([k \in 1..Len(p.edges) |->
               IF p.edges[k].kind \in KindEnum THEN <<>>
               ELSE <<[rule |-> "S7", what |-> "kind",
                       subject |-> <<p.edges[k].source, p.edges[k].target,
                                     p.edges[k].kind>>,
                       detail |-> <<>>]>>])

\* variant: edges followed from source to target only
NeighboursDirected(p, id) ==
    {p.edges[k].target : k \in {m \in 1..Len(p.edges) : p.edges[m].source = id}}

\* the undirected adjacency over all edges
Neighbours(p, id) ==
    {p.edges[k].target : k \in {m \in 1..Len(p.edges) : p.edges[m].source = id}}
    \cup {p.edges[k].source : k \in {m \in 1..Len(p.edges) : p.edges[m].target = id}}

RECURSIVE reachable_from_chv(_, _)
\* _reachable_from_chv: the ids reached from the ids in `seen`
reachable_from_chv(p, seen) ==
    LET next == seen \cup UNION {Neighbours(p, n) : n \in seen}
    IN  IF next = seen THEN seen ELSE reachable_from_chv(p, next)

\* where the traversal of S8 starts: at the chv node when there is exactly
\* one; without a unique chv node the check is skipped, or it starts at one
\* of the chv nodes, or at none
Traversals(p) ==
    IF Cardinality(ChvIds(p)) = 1
    THEN {[run |-> TRUE, start |-> ChvIds(p)]}
    ELSE {[run |-> FALSE, start |-> {}], [run |-> TRUE, start |-> {}]}
         \cup {[run |-> TRUE, start |-> {c}] : c \in ChvIds(p)}

\* S8: one error per node the traversal did not reach, in input order
ReachErrors(p, tr) ==
    IF ~tr.run THEN <<>>
    ELSE LET reached == reachable_from_chv(p, tr.start)
         IN  Concat([k \in 1..Len(p.nodes) |->
                        IF p.nodes[k].id \in reached THEN <<>>
                        ELSE <<[rule |-> "S8", what |-> "unreachable",
                                subject |-> <<p.nodes[k].id>>, detail |-> <<>>]>>])

\* the hull check on one hull: members that are no node, members outside
\* the hull's eid
HullMemberErrors(p, h) ==
    Concat([k \in 1..Len(h.members) |->
               IF h.members[k] \notin DOMAIN nodes_by_id(p)
               THEN <<[rule |-> "hull", what |-> "member",
                       subject |-> <<h.members[k]>>, detail |-> <<>>]>>
               ELSE IF "eid" \in DOMAIN h
                       /\ h.eid \notin SeqToSet(nodes_by_id(p)[h.members[k]].eid_set)
               THEN <<[rule |-> "hull", what |-> "eid",
                       subject |-> <<h.members[k]>>, detail |-> <<h.eid>>]>>
               ELSE <<>>])

HullErrors(p) ==
    IF "layouts" \in DOMAIN p /\ "hulls" \in DOMAIN p.layouts
    THEN Concat([k \in 1..Len(p.layouts.hulls) |->
                    HullMemberErrors(p, p.layouts.hulls[k])])
    ELSE <<>>

\* the (ok, errors) pairs validate can return on payload p: a single schema
\* error when the schema check fails, else the errors of every structural
\* check, in the order of the checks
validate(p) ==
    IF SchemaDefects(p) # {}
    THEN {[ok |-> FALSE, errors |-> <<SchemaError(d)>>] : d \in SchemaDefects(p)}
    ELSE {LET errors == TypingErrors(p) \o ChvCountErrors(p) \o WhitelistErrors(p)
                            \o ReachErrors(p, tr) \o HullErrors(p)
          IN  [ok |-> errors = <<>>, errors |-> errors] : tr \in Traversals(p)}

\* validate_payload(payload)
validate_payload ==
    /\ verdict = <<>>
    /\ \E r \in validate(vpayload) : verdict' = <<r>>
    /\ UNCHANGED <<vpayload, rmVars, tjVars>>

(***************************************************************************)
(* The payloads handed to the validator: nodes and edges picked, in        *)
(* catalogue order, from the catalogues below; an edge is picked only when *)
(* both its ends are.                                                      *)
(***************************************************************************)
NodeCatalogue ==
    <<[id |-> "chv:main", filler |-> "CHV", roles |-> <<"CHV">>,
       eid_set |-> <<>>, ntype |-> "chv"],
      [id |-> "chv:aux", filler |-> "CHV", roles |-> <<"CHV">>,
       eid_set |-> <<>>, ntype |-> "chv"],
      [id |-> "spo:dog@e1", filler |-> "dog", roles |-> <<"Subject">>,
       eid_set |-> <<"e1">>, ntype |-> "spo"],
      [id |-> "spo:ran@e2", filler |-> "ran", roles |-> <<"Predicate">>,
       eid_set |-> <<"e2">>, ntype |-> "spo"],
      [id |-> "evt:e1", filler |-> "e1", roles |-> <<"Event">>,
       eid_set |-> <<"e1">>, ntype |-> "event"],
      [id |-> "attr:fast", filler |-> "fast", roles |-> <<"Attr">>,
       eid_set |-> <<"e1">>, ntype |-> "attr"],
      [id |-> "meta:src", filler |-> "src", roles |-> <<"Source">>,
       eid_set |-> <<>>, ntype |-> "meta_out"],
      [id |-> "spo:cat@e1", roles |-> <<"Object">>,
       eid_set |-> <<"e1">>, ntype |-> "spo"]>>

EdgeCatalogue ==
    <<[source |-> "spo:dog@e1", target |-> "chv:main", kind |-> "binder"],
      [source |-> "spo:ran@e2", target |-> "chv:main", kind |-> "binder"],
      [source |-> "chv:main", target |-> "spo:dog@e1", kind |-> "binder"],
      [source |-> "spo:dog@e1", target |-> "chv:aux", kind |-> "binder"],
      [source |-> "evt:e1", target |-> "chv:main", kind |-> "binder"],
      [source |-> "spo:cat@e1", target |-> "chv:main", kind |-> "binder"],
      [source |-> "evt:e1", target |-> "spo:dog@e1", kind |-> "event-pred"],
      [source |-> "evt:e1", target |-> "spo:ran@e2", kind |-> "event-pred"],
      [source |-> "spo:dog@e1", target |-> "spo:ran@e2", kind |-> "event-pred"],
      [source |-> "spo:dog@e1", target |-> "spo:ran@e2", kind |-> "S-P"],
      [source |-> "spo:cat@e1", target |-> "spo:dog@e1", kind |-> "S-P"],
      [source |-> "evt:e1", target |-> "spo:dog@e1", kind |-> "S-P"],
      [source |-> "spo:ran@e2", target |-> "spo:dog@e1", kind |-> "P-O"],
      [source |-> "spo:ran@e2", target |-> "attr:fast", kind |-> "P-O"],
      [source |-> "attr:fast", target |-> "spo:dog@e1", kind |-> "attr"],
      [source |-> "spo:dog@e1", target |-> "attr:fast", kind |-> "attr"],
      [source |-> "attr:fast", target |-> "chv:main", kind |-> "attr"],
      [source |-> "meta:src", target |-> "chv:main", kind |-> "meta"],
      [source |-> "meta:src", target |-> "spo:ran@e2", kind |-> "meta"],
      [source |-> "spo:dog@e1", target |-> "spo:ran@e2", kind |-> "subevt"],
      [source |-> "evt:e1", target |-> "spo:ran@e2", kind |-> "subevt"]>>

PayloadVersions == {"2.4", "2.3"}

\* the top-level keys a payload may come without
DroppedKeys == {{}, {"edges"}}

RECURSIVE SubsetsUpTo(_, _)
\* the subsets of S with at most n elements
SubsetsUpTo(S, n) ==
    IF n = 0 THEN {{}}
    ELSE LET smaller == SubsetsUpTo(S, n - 1)
         IN  smaller \cup {s \cup {x} : s \in smaller, x \in S}

RECURSIVE Pick(_, _, _)
\* the entries of `catalogue` at the positions in idx, from position k on
Pick(catalogue, idx, k) ==
    IF k > Len(catalogue) THEN <<>>
    ELSE (IF k \in idx THEN <<catalogue[k]>> ELSE <<>>) \o Pick(catalogue, idx, k + 1)

\* the catalogue edges between the picked nodes
EdgesAmong(ns) ==
    {k \in 1..Len(EdgeCatalogue) :
        \E a, b \in ns : /\ EdgeCatalogue[k].source = NodeCatalogue[a].id
                         /\ EdgeCatalogue[k].target = NodeCatalogue[b].id}

\* the optional layouts: absent, or one hull of event e1 over the picked nodes
HullOver(ns) ==
    [hulls |-> <<[eid |-> "e1",
                  members |-> [k \in 1..Len(Pick(NodeCatalogue, ns, 1)) |->
                                  Pick(NodeCatalogue, ns, 1)[k].id]]>>]

PayloadOf(ns, es, version, dropped, hulled) ==
    LET core == [version |-> version, sentence |-> "The dog ran.",
                 nodes |-> Pick(NodeCatalogue, ns, 1),
                 edges |-> Pick(EdgeCatalogue, es, 1)]
        full == IF hulled THEN SetItem(core, "layouts", HullOver(ns)) ELSE core
    IN  Restrict(full, DOMAIN full \ dropped)

IdlePayload == PayloadOf({}, {}, "2.4", {}, FALSE)

InitValidateIdle ==
    /\ vpayload = IdlePayload
    /\ verdict = <<>>

(***************************************************************************)
(* SpecStage: one pipeline invocation over every context, well-formed or   *)
(* not.  Invocation 2 is never started.                                    *)
(***************************************************************************)
IdleContext ==
    [doc |-> "Rain.", frames |-> <<>>, alias_map |-> EmptyDict, may_need_stub |-> FALSE]

InitCommon ==
    /\ InitToJsonVars
    /\ InitValidateIdle
    /\ pc = [i \in Invocations |-> "ready"]
    /\ err = [i \in Invocations |-> <<>>]
    /\ tuples = [i \in Invocations |-> <<>>]
    /\ eid_of_pred = [i \in Invocations |-> EmptyDict]

InitStage ==
    /\ InitCommon
    /\ \E c \in Contexts(WellFormedFrames \cup MalformedFrames, MaxFrames, AliasMaps) :
          ctx = [i \in Invocations |->
                    [data |-> IF i = 1 THEN c ELSE IdleContext, debug |-> EmptyDict]]

NextStage ==
    \/ PipelineRunStage(1)
    \/ RunFrame(1)
    \/ RunTail(1)

SpecStage == InitStage /\ [][NextStage]_vars

(***************************************************************************)
(* SpecConcurrent: two invocations, each with its own Ctx holding every    *)
(* required key and well-formed frames, interleaved step by step.          *)
(***************************************************************************)
ConcFrames == {fr \in WellFormedFrames : fr.span = "ran"}

InitConcurrent ==
    /\ InitCommon
    /\ \E c1, c2 \in FullContexts(ConcFrames, MaxConcFrames, {EmptyDict}) :
          ctx = [i \in Invocations |->
                    [data |-> IF i = 1 THEN c1 ELSE c2, debug |-> EmptyDict]]

NextConcurrent ==
    \E i \in Invocations :
        \/ PipelineRunStage(i)
        \/ RunFrame(i)
        \/ RunTail(i)

SpecConcurrent == InitConcurrent /\ [][NextConcurrent]_vars

(***************************************************************************)
(* SpecToJson: to_json called MaxRuns times on one sentence; the frame     *)
(* source answers the same sentence with the same frames.                  *)
(***************************************************************************)
InitRuleMapIdle ==
    /\ pc = [i \in Invocations |-> "ready"]
    /\ err = [i \in Invocations |-> <<>>]
    /\ tuples = [i \in Invocations |-> <<>>]
    /\ eid_of_pred = [i \in Invocations |-> EmptyDict]
    /\ ctx = [i \in Invocations |-> [data |-> IdleContext, debug |-> EmptyDict]]

InitToJson ==
    /\ InitRuleMapIdle
    /\ InitValidateIdle
    /\ sentence \in Sentences
    /\ srl = [asked |-> FALSE, frames |-> <<>>]
    /\ payloads = <<>>
    /\ eid_counter = 1

NextToJson == to_json

SpecToJson == InitToJson /\ [][NextToJson]_vars

(***************************************************************************)
(* SpecValidate: validate_payload called on one payload.                   *)
(***************************************************************************)
InitValidate ==
    /\ InitRuleMapIdle
    /\ InitToJsonVars
    /\ \E ns \in SubsetsUpTo(1..Len(NodeCatalogue), MaxPayloadNodes) :
          \E es \in SubsetsUpTo(EdgesAmong(ns), MaxPayloadEdges) :
             \E version \in PayloadVersions, dropped \in DroppedKeys, hulled \in BOOLEAN :
                vpayload = PayloadOf(ns, es, version, dropped, hulled)
    /\ verdict = <<>>

NextValidate == validate_payload

SpecValidate == InitValidate /\ [][NextValidate]_vars

(***************************************************************************)
(* Properties of RuleMapStage.                                             *)
(***************************************************************************)
Data(i) == ctx[i].data

HasFrames(i) == "frames" \in DOMAIN Data(i)

IsPlaceholder(t) == t.role = "SentenceStub"

Placeholders(tups) == {k \in 1..Len(tups) : IsPlaceholder(tups[k])}

\* C4: within one run, tuples whose frames have the same predicate text carry
\* the same eid, the one generated when that text was first seen.
C4_SamePredicateSameEid ==
    \A i \in Invocations :
        (pc[i] \in {"run", "done", "raised"} /\ HasFrames(i)) =>
            \A a, b \in 1..Len(tuples[i]) :
                (/\ a <= Len(Data(i).frames)
                 /\ b <= Len(Data(i).frames)
                 /\ Data(i).frames[a].predicate = Data(i).frames[b].predicate)
                => tuples[i][a].eid = tuples[i][b].eid

C4_Witness ==
    /\ pc[1] = "done"
    /\ Len(Data(1).frames) = 2
    /\ Data(1).frames[1].predicate = Data(1).frames[2].predicate
    /\ Data(1).frames[1].span # Data(1).frames[2].span
    /\ Len(Data(1).tuples) = 2
    /\ Data(1).tuples[1].eid = Data(1).tuples[2].eid

\* C5: the tuples written to the context contain a SentenceStub placeholder
\* exactly when the frame list is empty and may_need_stub is set; an injected
\* placeholder is the only tuple; no output, no placeholder.
C5_StubIffEmptyAndFlag ==
    \A i \in Invocations :
        IF "tuples" \in DOMAIN Data(i)
        THEN LET out == Data(i).tuples
             IN  /\ (Placeholders(out) # {}) <=>
                        (Data(i).frames = <<>> /\ Data(i).may_need_stub)
                 /\ (Placeholders(out) # {}) =>
                        (Cardinality(Placeholders(out)) = 1 /\ Len(out) = 1)
        ELSE pc[i] # "done"

C5_Witness ==
    /\ pc[1] = "done"
    /\ Data(1).frames = <<>>
    /\ Data(1).may_need_stub
    /\ Len(Data(1).tuples) = 1
    /\ IsPlaceholder(Data(1).tuples[1])

StubRun(i) ==
    /\ pc[i] = "done"
    /\ Data(i).frames = <<>>
    /\ Data(i).may_need_stub

\* C6: two runs on the same sentence with zero frames and stubbing allowed
\* yield the same placeholder id.
C6_PlaceholderIdDeterministic ==
    (StubRun(1) /\ StubRun(2) /\ Data(1).doc = Data(2).doc) =>
        Data(1).tuples[1].eid = Data(2).tuples[1].eid

AllRequiredPresent(i) ==
    {"doc", "frames", "alias_map", "may_need_stub"} \subseteq DOMAIN Data(i)

MalformedInput(i) ==
    /\ AllRequiredPresent(i)
    /\ \E k \in 1..Len(Data(i).frames) : ~IsWellFormed(Data(i).frames[k])

\* C7: with every required key present and a malformed frame list, run raises
\* nothing and leaves an empty tuple list as its output.
C7_MalformedYieldsEmpty ==
    \A i \in Invocations :
        MalformedInput(i) =>
            /\ pc[i] # "raised"
            /\ pc[i] = "done" => Data(i).tuples = <<>>

MissingRequired(i) ==
    {"doc", "frames", "alias_map", "may_need_stub"} \ DOMAIN Data(i)

\* C8: when a required key is absent the invocation ends in a fatal stage
\* error naming a missing key; run's body is never entered, and neither
\* `tuples` nor the stage's debug entry is written.
C8_FailFastOnMissingKey ==
    \A i \in Invocations :
        MissingRequired(i) # {} =>
            /\ pc[i] \in {"ready", "fatal"}
            /\ pc[i] = "fatal" =>
                  (err[i][1] = "StageError" /\ err[i][2] \in MissingRequired(i))
            /\ "tuples" \notin DOMAIN Data(i)
            /\ ctx[i].debug = EmptyDict
            /\ tuples[i] = <<>>

C8_Witness ==
    /\ pc[1] = "fatal"
    /\ err[1] = <<"StageError", "frames">>
    /\ MissingRequired(1) = {"frames", "may_need_stub"}

\* the predicate texts invocation i has processed so far
SeenPredicates(i) ==
    {Data(i).frames[k].predicate : k \in 1..Len(tuples[i]) \cap 1..Len(Data(i).frames)}

\* C9: a step of one invocation changes nothing of the other (its context,
\* its event-id map, its error); the map of an invocation holds exactly the
\* predicate texts of its own frames, and its tuples carry the ids of that map.
C9_EidMapIsolation ==
    [][\A i \in Invocations :
          /\ (pc'[i] = pc[i] /\ tuples'[i] = tuples[i]) =>
                (/\ eid_of_pred'[i] = eid_of_pred[i]
                 /\ ctx'[i] = ctx[i]
                 /\ err'[i] = err[i])
          /\ pc'[i] \in {"run", "done"} =>
                (/\ DOMAIN eid_of_pred'[i] = SeenPredicates(i)'
                 /\ \A k \in 1..Len(tuples'[i]) \cap 1..Len(Data(i).frames') :
                       tuples'[i][k].eid =
                           eid_of_pred'[i][Data(i).frames'[k].predicate])]_vars

C9_Witness ==
    /\ pc[1] = "run"
    /\ pc[2] = "run"
    /\ "ran" \in DOMAIN eid_of_pred[1]
    /\ "ran" \in DOMAIN eid_of_pred[2]
    /\ eid_of_pred[1]["ran"] # eid_of_pred[2]["ran"]
    /\ Len(tuples[1]) < Len(Data(1).frames)
    /\ Len(tuples[2]) < Len(Data(2).frames)

(***************************************************************************)
(* Properties of to_json.                                                  *)
(***************************************************************************)
NodesWhere(p, P(_)) == {k \in 1..Len(p.nodes) : P(p.nodes[k])}

HasSentenceRole(n) == "Sentence" \in SeqToSet(n.roles)

IsChv(n) == n.ntype = "chv"

SentenceNodeIds(p) == {p.nodes[k].id : k \in NodesWhere(p, HasSentenceRole)}

EdgeTriples(p) ==
    {<<p.edges[k].source, p.edges[k].target, p.edges[k].kind>> : k \in 1..Len(p.edges)}

NoFrames == srl.asked /\ srl.frames = <<>>

\* C1: when the frame source returns no frames, the payload has exactly one
\* node with role Sentence and no S-P or P-O edge, and every run on the
\* sentence gives that node the same id.
C1_StubInjection ==
    NoFrames =>
        \A k \in 1..Len(payloads) :
            /\ Cardinality(NodesWhere(payloads[k], HasSentenceRole)) = 1
            /\ \A e \in EdgeTriples(payloads[k]) : e[3] \notin {"S-P", "P-O"}
            /\ \A l \in 1..Len(payloads) :
                  SentenceNodeIds(payloads[k]) = SentenceNodeIds(payloads[l])

C1_Witness ==
    /\ NoFrames
    /\ Len(payloads) = 2
    /\ payloads[1].nodes[1].roles = <<"Sentence">>
    /\ payloads[1].nodes[1].id = stub_id_of(sentence)
    /\ payloads[2].nodes[1].id = payloads[1].nodes[1].id

\* C2: every payload to_json builds contains exactly one node with
\* ntype = chv.
C2_ExactlyOneChvNode ==
    \A k \in 1..Len(payloads) :
        Cardinality(NodesWhere(payloads[k], IsChv)) = 1

\* C3: runs of to_json on the same sentence with the same frames produce the
\* same set of node ids and the same set of (source, target, kind) triples.
C3_AssemblyDeterministic ==
    \A k, l \in 1..Len(payloads) :
        /\ NodeIds(payloads[k].nodes) = NodeIds(payloads[l].nodes)
        /\ EdgeTriples(payloads[k]) = EdgeTriples(payloads[l])

C3_Witness ==
    /\ Len(payloads) = 2
    /\ Len(srl.frames) = 2
    /\ Cardinality(EdgeTriples(payloads[1])) >= 2
    /\ Cardinality(NodeIds(payloads[1].nodes)) >= 3
    /\ NodeIds(payloads[2].nodes) = NodeIds(payloads[1].nodes)
    /\ EdgeTriples(payloads[2]) = EdgeTriples(payloads[1])

\* C10: every payload to_json returns, whatever the frame source answered
\* (the empty list included), has at least one node.
C10_PayloadHasNode ==
    \A k \in 1..Len(payloads) : Len(payloads[k].nodes) >= 1

C10_Witness ==
    /\ NoFrames
    /\ Len(payloads) >= 1
    /\ Len(payloads[1].nodes) = 1
    /\ payloads[1].nodes[1].filler = sentence

(***************************************************************************)
(* Properties of the validator.                                            *)
(***************************************************************************)
Validated == verdict # <<>>

Errors == verdict[1].errors

ErrorsWhere(P(_)) == {k \in 1..Len(Errors) : P(Errors[k])}

\* the payload passes the schema: the four top-level fields, version 2.4,
\* every node with its five required properties
WellFormedPayload ==
    /\ {"version", "sentence", "nodes", "edges"} \subseteq DOMAIN vpayload
    /\ vpayload.version = "2.4"
    /\ \A k \in 1..Len(vpayload.nodes) :
          {"id", "filler", "roles", "eid_set", "ntype"} \subseteq DOMAIN vpayload.nodes[k]

ChvNodes == {k \in 1..Len(vpayload.nodes) : vpayload.nodes[k].ntype = "chv"}

IsChvCountError(e) == e.rule = "S6"

AllNodeIds == {vpayload.nodes[k].id : k \in 1..Len(vpayload.nodes)}

Linked(a, b) ==
    \E k \in 1..Len(vpayload.edges) :
        {vpayload.edges[k].source, vpayload.edges[k].target} = {a, b}

RECURSIVE Component(_)
\* the ids joined to the ids of S by edges taken in either direction
Component(S) ==
    LET next == S \cup {b \in AllNodeIds : \E a \in S : Linked(a, b)}
    IN  IF next = S THEN S ELSE Component(next)

Unreachable ==
    AllNodeIds \ Component({vpayload.nodes[k].id : k \in ChvNodes})

IsUnreachableError(e) == e.rule = "S8"

NtypeOf(id) ==
    vpayload.nodes[CHOOSE k \in 1..Len(vpayload.nodes) : vpayload.nodes[k].id = id].ntype

EidSetOf(id) ==
    vpayload.nodes[CHOOSE k \in 1..Len(vpayload.nodes) : vpayload.nodes[k].id = id].eid_set

EdgeTriple(k) ==
    <<vpayload.edges[k].source, vpayload.edges[k].target, vpayload.edges[k].kind>>

\* the table of the claim
ClaimedPair(kind) ==
    CASE kind \in {"S-P", "P-O", "subevt"} -> <<"spo", "spo">>
      [] kind = "event-pred" -> <<"event", "spo">>
      [] kind = "attr" -> <<"attr", "spo">>
      [] kind = "meta" -> <<"meta_out", "chv">>
      [] kind = "binder" -> <<"spo", "chv">>

Whitelist == {"S-P", "P-O", "attr", "meta", "binder", "event-pred", "subevt"}

MistypedEdges ==
    {k \in 1..Len(vpayload.edges) :
        /\ vpayload.edges[k].kind \in Whitelist
        /\ <<NtypeOf(vpayload.edges[k].source), NtypeOf(vpayload.edges[k].target)>>
              # ClaimedPair(vpayload.edges[k].kind)}

IsTypingError(e) == e.what = "ntype"

\* C13: on a payload that passes the schema, the edge typing errors are in
\* one-to-one correspondence with the whitelisted edges whose (source.ntype,
\* target.ntype) pair is not the pair required for their kind: every such
\* edge is reported, no other edge is, and ok is False when there is one.
C13_EdgeTyping ==
    (Validated /\ WellFormedPayload) =>
        /\ {Errors[k].subject : k \in ErrorsWhere(IsTypingError)}
              = {EdgeTriple(k) : k \in MistypedEdges}
        /\ Cardinality(ErrorsWhere(IsTypingError)) = Cardinality(MistypedEdges)
        /\ MistypedEdges # {} => ~verdict[1].ok

C13_Witness ==
    /\ Validated
    /\ WellFormedPayload
    /\ Cardinality(MistypedEdges) = 2
    /\ Cardinality(ErrorsWhere(IsTypingError)) = 2
    /\ \E k \in MistypedEdges : vpayload.edges[k].kind = "event-pred"
    /\ \E k \in MistypedEdges : vpayload.edges[k].kind = "attr"

EventPredEdges ==
    {k \in 1..Len(vpayload.edges) :
        /\ vpayload.edges[k].kind = "event-pred"
        /\ NtypeOf(vpayload.edges[k].source) = "event"
        /\ NtypeOf(vpayload.edges[k].target) = "spo"}

EidErrorsOn(k) ==
    {j \in 1..Len(Errors) :
        /\ Errors[j].rule = "S2"
        /\ Errors[j].what = "eid"
        /\ Errors[j].subject = EdgeTriple(k)}

MissingTopLevel == {"version", "sentence", "nodes", "edges"} \ DOMAIN vpayload

UnrecognizedVersion == "version" \in DOMAIN vpayload /\ vpayload.version # "2.4"

MissingNodeProperties ==
    IF "nodes" \in DOMAIN vpayload
    THEN UNION {{"id", "filler", "roles", "eid_set", "ntype"} \ DOMAIN vpayload.nodes[k] :
                   k \in 1..Len(vpayload.nodes)}
    ELSE {}

\* C15: when the payload lacks a required top-level field, has an
\* unrecognized version, or has a node lacking a required property, validate
\* returns ok = False with exactly one error, a schema error; when that
\* error reports a missing property it names one the payload lacks, and no
\* error of a structural check is in the list.
C15_SchemaShortCircuit ==
    (/\ Validated
     /\ (MissingTopLevel # {} \/ UnrecognizedVersion \/ MissingNodeProperties # {}))
    => /\ ~verdict[1].ok
       /\ Len(Errors) = 1
       /\ Errors[1].rule = "JSON-Schema"
       /\ Errors[1].what \in {"required", "version"}
       /\ Errors[1].what = "required" =>
             Errors[1].subject[1] \in MissingTopLevel \cup MissingNodeProperties
       /\ Errors[1].what = "version" => UnrecognizedVersion
       /\ (MissingTopLevel \cup MissingNodeProperties # {} /\ ~UnrecognizedVersion)
             => Errors[1].what = "required"

C15_Witness ==
    /\ Validated
    /\ MissingTopLevel = {}
    /\ ~UnrecognizedVersion
    /\ MissingNodeProperties = {"filler"}
    /\ ChvNodes = {}
    /\ Len(vpayload.edges) >= 1
    /\ verdict[1] = [ok |-> FALSE,
                     errors |-> <<[rule |-> "JSON-Schema", what |-> "required",
                                   subject |-> <<"filler">>, detail |-> <<>>]>>]

(***************************************************************************)
(* Properties of to_json: roles, edge kinds, node ids, offsets, the stub.  *)
(***************************************************************************)
\* the role table of the claims
ClaimedRole(tag) ==
    IF tag = B_ARG0 THEN "Subject"
    ELSE IF tag = B_ARG1 \/ tag = B_ARG2 THEN "Object"
    ELSE IF Len(tag) >= Len(B_ARGM_LOC) /\ SubSeq(tag, 1, Len(B_ARGM_LOC)) = B_ARGM_LOC
    THEN "IndirectObject"
    ELSE IF Len(tag) >= Len(B_ARGM_MNR) /\ SubSeq(tag, 1, Len(B_ARGM_MNR)) = B_ARGM_MNR
    THEN "Attr"
    ELSE NoneValue

Frames == srl.frames

\* the positions zip(words, tags) visits in frame f
ArgPositions(f) ==
    {j \in 1..Len(Frames[f].words) : j <= Len(Frames[f].tags)}

\* the positions of frame f whose tag the table maps to a role
MappedPositions(f) ==
    {j \in ArgPositions(f) : ClaimedRole(Frames[f].tags[j]) # NoneValue}

PredId(f) == <<"s", "p", "o", ":">> \o Frames[f].verb \o <<"@">> \o eid_of(f)

ArgId(f, j) == <<"s", "p", "o", ":">> \o Frames[f].words[j] \o <<"@">> \o eid_of(f)

EdgesJoining(p, a, b) ==
    {k \in 1..Len(p.edges) : {p.edges[k].source, p.edges[k].target} = {a, b}}

\* C16: for every argument word of a frame whose tag maps to a role, the
\* payload has an edge between the argument node and the frame's predicate
\* node, of kind S-P when the role is Subject and P-O for any other role.
C16_EdgeKindByRole ==
    srl.asked =>
        \A k \in 1..Len(payloads) :
            \A f \in 1..Len(Frames) :
                \A j \in MappedPositions(f) :
                    \E e \in EdgesJoining(payloads[k], ArgId(f, j), PredId(f)) :
                        payloads[k].edges[e].kind =
                            (IF ClaimedRole(Frames[f].tags[j]) = "Subject"
                             THEN "S-P" ELSE "P-O")

\* the (frame, position) pairs with a mapped tag, in processing order
MappedArgs ==
    Concat([f \in 1..Len(Frames) |->
               Concat([j \in 1..Len(Frames[f].words) |->
                          IF j \in MappedPositions(f) THEN <<[f |-> f, j |-> j]>>
                          ELSE <<>>])])

PredIds == {PredId(f) : f \in 1..Len(Frames)}

\* the node ids, the roles and the words of the mapped positions `args`
ArgIdsOf(args) == [i \in 1..Len(args) |-> ArgId(args[i].f, args[i].j)]

RolesOf(args) == [i \in 1..Len(args) |-> ClaimedRole(Frames[args[i].f].tags[args[i].j])]

WordsOf(args) == [i \in 1..Len(args) |-> Frames[args[i].f].words[args[i].j]]

\* the first position at which id occurs in the list ids
FirstIndex(ids, id) ==
    CHOOSE m \in 1..Len(ids) :
        ids[m] = id /\ \A n \in 1..Len(ids) : ids[n] = id => m <= n

\* C17: the role of a word is the one of the fixed table (B-ARG0 Subject;
\* B-ARG1, B-ARG2 Object; prefix B-ARGM-LOC IndirectObject; prefix B-ARGM-MNR
\* Attr; anything else none).  A payload built from frames has one edge and
\* one (role, word) entry per mapped word, in order, and its nodes are the
\* predicate nodes and the nodes of the mapped words: an unmapped word adds
\* no node and no edge, and the words after it are still processed.
C17_RoleMapping ==
    (srl.asked /\ Frames # <<>>) =>
        LET args  == MappedArgs
            ids   == ArgIdsOf(args)
            roles == RolesOf(args)
            words == WordsOf(args)
            preds == PredIds
        IN  \A k \in 1..Len(payloads) :
                LET p == payloads[k]
                IN  /\ Len(p.edges) = Len(args)
                    /\ \A i \in 1..Len(args) :
                          {p.edges[i].source, p.edges[i].target}
                              = {ids[i], PredId(args[i].f)}
                    /\ NodeIds(p.nodes) = preds \cup SeqToSet(ids)
                    /\ \A n \in 1..Len(p.nodes) :
                          p.nodes[n].id \notin preds =>
                              p.nodes[n].roles = <<roles[FirstIndex(ids, p.nodes[n].id)]>>
                    /\ IF args = <<>> THEN DOMAIN p.chv = {"ones"}
                       ELSE /\ DOMAIN p.chv = {"encode_chv"}
                            /\ p.chv.encode_chv =
                                  [i \in 1..Len(args) |-> <<roles[i], words[i]>>]

C17_Witness ==
    /\ Len(payloads) >= 1
    /\ Len(Frames) = 1
    /\ Frames[1].verb = <<"B", "a">>
    /\ Frames[1].tags = <<O_TAG, B_ARG0>>
    /\ Len(payloads[1].nodes) = 2
    /\ payloads[1].nodes[2].roles = <<"Subject">>
    /\ Len(payloads[1].edges) = 1

\* the (text, frame) pairs that get a node: the predicate and the mapped words
NodeKeys(args) ==
    {<<Frames[f].verb, f>> : f \in 1..Len(Frames)}
    \cup {<<Frames[args[i].f].words[args[i].j], args[i].f>> : i \in 1..Len(args)}

\* C18: a node's id is a function of its filler and event id: nodes with the
\* same filler and eid_set have the same id, nodes differing in either have
\* different ids; within a payload the spans of one frame with the same text
\* share one node, and no two nodes have the same id.
C18_NodeIdentity ==
    srl.asked =>
        LET all  == UNION {SeqToSet(payloads[k].nodes) : k \in 1..Len(payloads)}
            keys == Cardinality(NodeKeys(MappedArgs))
        IN  /\ \A m, n \in all :
                  (m.filler = n.filler /\ m.eid_set = n.eid_set) <=> m.id = n.id
            /\ \A k \in 1..Len(payloads) :
                  /\ \A a, b \in 1..Len(payloads[k].nodes) :
                        a # b => payloads[k].nodes[a].id # payloads[k].nodes[b].id
                  /\ Frames # <<>> => Len(payloads[k].nodes) = keys

C18_Witness ==
    /\ Len(payloads) >= 1
    /\ Len(Frames) = 2
    /\ \A f \in 1..2 : /\ Frames[f].verb = <<"a">>
                       /\ Frames[f].words = <<<<"a">>, <<"a">>>>
                       /\ Frames[f].tags = <<B_ARG0, B_ARG1>>
    /\ Len(payloads[1].nodes) = 2
    /\ Len(payloads[1].edges) = 4
    /\ payloads[1].nodes[1].filler = payloads[1].nodes[2].filler
    /\ payloads[1].nodes[1].id # payloads[1].nodes[2].id

PredNode(p, f) ==
    p.nodes[CHOOSE n \in 1..Len(p.nodes) : p.nodes[n].id = PredId(f)]

Occurrences(w) == {j \in 1..Len(split(sentence)) : split(sentence)[j] = w}

\* C19: every Predicate node has char_end = char_start + the length of its
\* span, and of two frames whose predicate span is the same word, repeated in
\* the sentence, the later frame's Predicate node has the larger char_start.
C19_MonotoneCursor ==
    srl.asked =>
        \A k \in 1..Len(payloads) :
            \A f, g \in 1..Len(Frames) :
                /\ PredNode(payloads[k], f).char_end
                      = PredNode(payloads[k], f).char_start + Len(Frames[f].verb)
                /\ (/\ f < g
                    /\ Frames[f].verb = Frames[g].verb
                    /\ Cardinality(Occurrences(Frames[f].verb)) >= 2)
                   => PredNode(payloads[k], f).char_start
                         < PredNode(payloads[k], g).char_start

\* C20: the node created for a sentence without frames is the only node with
\* role Sentence, and it has ntype spo, roles [Sentence], an empty eid_set
\* and an alias_key that is the same for every sentence.
C20_StubShape ==
    NoFrames =>
        \A k \in 1..Len(payloads) :
            /\ Cardinality(NodesWhere(payloads[k], HasSentenceRole)) = 1
            /\ \A n \in NodesWhere(payloads[k], HasSentenceRole) :
                  /\ payloads[k].nodes[n].ntype = "spo"
                  /\ payloads[k].nodes[n].roles = <<"Sentence">>
                  /\ payloads[k].nodes[n].eid_set = <<>>
                  /\ \A s \in Sentences :
                        StubNode(s).alias_key = payloads[k].nodes[n].alias_key

(***************************************************************************)
(* Properties of to_json: hulls, shared event ids, edge ends.              *)
(***************************************************************************)
EidsOf(p) == UNION {SeqToSet(p.nodes[n].eid_set) : n \in 1..Len(p.nodes)}

\* the ids, in node order, of the nodes of p that carry event id e
Carriers(p, e) ==
    Concat([n \in 1..Len(p.nodes) |->
               IF e \in SeqToSet(p.nodes[n].eid_set) THEN <<p.nodes[n].id>> ELSE <<>>])

\* C21: layouts.hulls of a payload has exactly one hull per event id that
\* occurs in some node's eid_set, and the members of that hull are the ids,
\* in node order, of the nodes whose eid_set contains the event id.
C21_HullCollection ==
    \A k \in 1..Len(payloads) :
        LET p     == payloads[k]
            hulls == p.layouts.hulls
        IN  /\ Len(hulls) = Cardinality(EidsOf(p))
            /\ \A e \in EidsOf(p) :
                  \E h \in 1..Len(hulls) :
                      /\ hulls[h].eid = e
                      /\ hulls[h].members = Carriers(p, e)

HasNode(p, id) == \E n \in 1..Len(p.nodes) : p.nodes[n].id = id

EidSetOfNode(p, id) ==
    SeqToSet(p.nodes[CHOOSE n \in 1..Len(p.nodes) : p.nodes[n].id = id].eid_set)

\* C22: every S-P or P-O edge of a payload joins two nodes of the payload
\* whose eid_sets both contain the event id of the frame whose argument word
\* produced the edge.
C22_EdgesShareEid ==
    srl.asked =>
        LET args == MappedArgs
        IN  \A k \in 1..Len(payloads) :
                LET p == payloads[k]
                IN  \A i \in 1..Len(p.edges) :
                        p.edges[i].kind \in {"S-P", "P-O"} =>
                            /\ i <= Len(args)
                            /\ HasNode(p, p.edges[i].source)
                            /\ HasNode(p, p.edges[i].target)
                            /\ eid_of(args[i].f) \in
                                  EidSetOfNode(p, p.edges[i].source)
                                      \cap EidSetOfNode(p, p.edges[i].target)

C22_Witness ==
    /\ Len(payloads) >= 1
    /\ Len(Frames) = 2
    /\ Len(payloads[1].edges) = 2
    /\ payloads[1].edges[1].kind = "S-P"
    /\ payloads[1].edges[2].kind = "P-O"
    /\ \A i \in 1..2 :
          /\ payloads[1].edges[i].source # payloads[1].edges[i].target
          /\ EidSetOfNode(payloads[1], payloads[1].edges[i].source) = {eid_of(i)}
          /\ EidSetOfNode(payloads[1], payloads[1].edges[i].target) = {eid_of(i)}

\* C23: in every payload, whatever the frames, the source and the target of
\* every edge are ids of nodes in the payload's node list; an argument word
\* equal to the predicate span gives a self-loop on the predicate node.
C23_NoDanglingEdges ==
    \A k \in 1..Len(payloads) :
        \A i \in 1..Len(payloads[k].edges) :
            /\ HasNode(payloads[k], payloads[k].edges[i].source)
            /\ HasNode(payloads[k], payloads[k].edges[i].target)

C23_Witness ==
    /\ Len(payloads) >= 1
    /\ Len(Frames) = 2
    /\ Frames[1].verb = <<"a">>
    /\ Frames[1].words = <<<<"B", "a">>, <<"a">>>>
    /\ Frames[1].tags = <<B_ARG0, B_ARG1>>
    /\ Frames[2] = Frames[1]
    /\ Len(payloads[1].nodes) = 4
    /\ Len(payloads[1].edges) = 4
    /\ payloads[1].edges[2].source = payloads[1].edges[2].target
    /\ payloads[1].edges[2].source = payloads[1].nodes[1].id
    /\ payloads[1].edges[3].source = payloads[1].nodes[4].id
    /\ payloads[1].edges[3].target = payloads[1].nodes[3].id

(***************************************************************************)
(* Properties of RuleMapStage: the metrics under ctx.debug["rulemap"].     *)
(***************************************************************************)
Metrics(i) == ctx[i].debug["rulemap"]

PredicateTexts(i) == {Data(i).frames[k].predicate : k \in 1..Len(Data(i).frames)}

\* C24: the metrics are written when run completes, and then n_tuples is the
\* length of the tuple list in the context, stub_injected holds exactly when
\* that list contains the placeholder, n_predicates is the number of distinct
\* predicate texts of the frames (at most the number of frames, 0 with a
\* stub), and without a stub the tuples are those of the frames, one per
\* frame, in frame order.
C24_MetricsConsistent ==
    \A i \in Invocations :
        IF pc[i] = "done"
        THEN LET out == Data(i).tuples
                 frs == Data(i).frames
                 m   == Metrics(i)
             IN  /\ m.n_tuples = Len(out)
                 /\ m.stub_injected <=> Placeholders(out) # {}
                 /\ m.n_predicates = Cardinality(PredicateTexts(i))
                 /\ m.n_predicates <= Len(frs)
                 /\ m.stub_injected => m.n_predicates = 0
                 /\ ~m.stub_injected =>
                       /\ Len(out) = Len(frs)
                       /\ \A k \in 1..Len(frs) :
                             /\ out[k].role = frs[k].role
                             /\ out[k].span = strip(frs[k].span)
        ELSE ctx[i].debug = EmptyDict

C24_Witness ==
    /\ pc[1] = "done"
    /\ Data(1).may_need_stub
    /\ Len(Data(1).frames) = 2
    /\ Data(1).frames[1].predicate = Data(1).frames[2].predicate
    /\ Data(1).frames[1].span # Data(1).frames[2].span
    /\ Metrics(1) = [n_predicates |-> 1, n_tuples |-> 2, stub_injected |-> FALSE]
    /\ Data(1).tuples[1].span = "Yao"
    /\ Data(1).tuples[2].span = "ran"
=============================================================================
